---- MODULE Spec2Model ----
(***************************************************************************)
(* A model of pg-helper: the compiler from table/column descriptions to    *)
(* SQL text.                                                               *)
(*                                                                         *)
(* SQL text is modelled by TLA+ strings, built with \o exactly where the   *)
(* source uses format!/join.  A Rust Vec is a sequence; Option<String> and *)
(* Result<String, E> are records with a tag.  A panic (todo!,              *)
(* unimplemented!) is a result of its own, distinct from None.             *)
(***************************************************************************)
EXTENDS Integers, Sequences, FiniteSets, TLC

VARIABLES
    ty,          \* type_helpers: the postgres Type built so far
    fieldsAcc,   \* type_helpers: the (name, Type) pairs collected for struct_type
    defs,        \* type_helpers: the last result of ObjectAndCreateSql::from_type
    columns,     \* Table::columns() of the table being compiled
    constraints, \* Table::constraints() of the table being compiled
    out,         \* the last statement a Table operation returned
    val,         \* types.rs: the &dyn Any handed to the value codec
    rows,        \* the rows handed to an insert, each the values() of a row
    executed,    \* ext.rs: the (query, params) pairs the client has executed
    builder,     \* column.rs: the ColumnBuilder in use, none once finished
    pg_type      \* the server's pg_catalog.pg_type: the names of the types it holds

emitVars == <<ty, fieldsAcc, defs>>
tableVars == <<columns, constraints, out>>
hostVars == <<val, rows, executed>>
columnVars == <<builder>>
serverVars == <<pg_type>>
vars == <<ty, fieldsAcc, defs, columns, constraints, out, val, rows, executed, builder, pg_type>>

(***************************************************************************)
(* Bounds of the model.                                                    *)
(***************************************************************************)
MaxNodes == 4       \* nodes (types and nested types) of a constructed type
MaxFields == 2      \* fields given to one struct_type call
MaxColumns == 3     \* columns of a table (the const parameter N)
MaxConstraints == 2 \* constraints of a table (CONSTRAINTS_N)

(***************************************************************************)
(* Sequence and string helpers (itertools / std).                          *)
(***************************************************************************)
RECURSIVE Join(_, _)
\* itertools::Itertools::join: the items separated by sep, "" for no item.
Join(items, sep) ==
    IF Len(items) = 0 THEN ""
    ELSE IF Len(items) = 1 THEN items[1]
    ELSE items[1] \o sep \o Join(Tail(items), sep)

RECURSIVE Flatten(_)
\* Iterator::flat_map(..).collect(): the concatenation of the inner vectors.
Flatten(seqs) ==
    IF Len(seqs) = 0 THEN <<>> ELSE Head(seqs) \o Flatten(Tail(seqs))

Range(s) == {s[i] : i \in 1..Len(s)}

(***************************************************************************)
(* postgres_types::Type as type_helpers.rs and column.rs use it.  One      *)
(* record shape serves every Kind: `fields` holds the Composite fields, or *)
(* the single inner type of an Array, Range or Domain; `labels` holds the  *)
(* Enum variants.                                                          *)
(***************************************************************************)
Field(name, type) == [name |-> name, type |-> type]

TypeNew(name, kind, fields, labels) ==
    [kind |-> kind, name |-> name, size |-> -1, fields |-> fields, labels |-> labels]

INT2 == TypeNew("int2", "Simple", <<>>, <<>>)

Inner(t) == t.fields[1].type

struct_type(name, fields) == TypeNew(name, "Composite", fields, <<>>)

array_type(of) == TypeNew(of.name \o "s", "Array", <<Field("", of)>>, <<>>)

domain_type(name, inner) == TypeNew(name, "Domain", <<Field("", inner)>>, <<>>)

enum_type(name, labels) == TypeNew(name, "Enum", <<>>, labels)

range_type(name, inner) == TypeNew(name, "Range", <<Field("", inner)>>, <<>>)

\* impl Display for postgres_types::Type: the bare name in the public schema.
TypeDisplay(t) == t.name

(***************************************************************************)
(* type_helpers.rs: ObjectAndCreateSql                                     *)
(***************************************************************************)
ObjectAndCreateSqlNew(name, create_sql) == [name |-> name, create_sql |-> create_sql]

\* unimplemented!(): the call does not return a list.
Unimplemented == <<ObjectAndCreateSqlNew("<panic>", "Unhandled type kind")>>

IsPanic(r) == \E i \in 1..Len(r) : r[i].name = "<panic>"

EnumFields(labels) == Join([i \in 1..Len(labels) |-> "'" \o labels[i] \o "'"], ", ")

CompositeFields(fields) ==
    Join([i \in 1..Len(fields) |-> fields[i].name \o " " \o TypeDisplay(fields[i].type)], ", ")

\* The entry of a domain: CREATE DOMAIN "<ty>" AS <inner>.
domain_def(t) ==
    ObjectAndCreateSqlNew(t.name,
        "CREATE DOMAIN \"" \o TypeDisplay(t) \o "\" AS " \o TypeDisplay(Inner(t)))

\* The entry of an enum: CREATE TYPE "<ty>" AS ENUM ('<label>', ...).
enum_def(t) ==
    ObjectAndCreateSqlNew(t.name,
        "CREATE TYPE \"" \o TypeDisplay(t) \o "\" AS ENUM (" \o EnumFields(t.labels) \o ")")

\* The entry of a composite: CREATE TYPE <name> AS (<field> <type>, ...).
composite_def(t) ==
    ObjectAndCreateSqlNew(t.name,
        "CREATE TYPE " \o t.name \o " AS (" \o CompositeFields(t.fields) \o ")")

RECURSIVE from_type_preorder(_)
\* A from_type that pushes a type's own entry before those of its parts.
from_type_preorder(t) ==
    CASE t.kind \in {"Simple", "Pseudo"} -> <<>>
      [] t.kind \in {"Array", "Range"} -> from_type_preorder(Inner(t))
      [] t.kind = "Domain" -> <<domain_def(t)>> \o from_type_preorder(Inner(t))
      [] t.kind = "Enum" -> <<enum_def(t)>>
      [] t.kind = "Composite" ->
            <<composite_def(t)>>
                \o Flatten([i \in 1..Len(t.fields) |-> from_type_preorder(t.fields[i].type)])
      [] OTHER -> Unimplemented

RECURSIVE from_type_array_entry(_)
\* A from_type in which an array pushes an entry of its own after its element's.
from_type_array_entry(t) ==
    CASE t.kind \in {"Simple", "Pseudo"} -> <<>>
      [] t.kind = "Array" ->
            LET prev_defs == from_type_array_entry(Inner(t))
                def == ObjectAndCreateSqlNew(t.name,
                           "CREATE TYPE " \o t.name \o " AS ARRAY OF " \o TypeDisplay(Inner(t)))
            IN  IF IsPanic(prev_defs) THEN Unimplemented ELSE Append(prev_defs, def)
      [] t.kind = "Range" -> from_type_array_entry(Inner(t))
      [] t.kind = "Domain" ->
            LET prev_defs == from_type_array_entry(Inner(t))
                def == domain_def(t)
            IN  IF IsPanic(prev_defs) THEN Unimplemented ELSE Append(prev_defs, def)
      [] t.kind = "Enum" -> <<enum_def(t)>>
      [] t.kind = "Composite" ->
            LET prev_defs ==
                    Flatten([i \in 1..Len(t.fields) |-> from_type_array_entry(t.fields[i].type)])
                def == composite_def(t)
            IN  IF IsPanic(prev_defs) THEN Unimplemented ELSE Append(prev_defs, def)
      [] OTHER -> Unimplemented

RECURSIVE from_type(_)
from_type(t) ==
    CASE t.kind \in {"Simple", "Pseudo"} -> <<>>
      [] t.kind = "Array" -> from_type(Inner(t))
      [] t.kind = "Range" -> from_type(Inner(t))
      [] t.kind = "Domain" ->
            LET prev_defs == from_type(Inner(t))
                def == domain_def(t)
            IN  IF IsPanic(prev_defs) THEN Unimplemented ELSE Append(prev_defs, def)
      [] t.kind = "Enum" -> <<enum_def(t)>>
      [] t.kind = "Composite" ->
            LET prev_defs == Flatten([i \in 1..Len(t.fields) |-> from_type(t.fields[i].type)])
                def == composite_def(t)
            IN  IF IsPanic(prev_defs) THEN Unimplemented ELSE Append(prev_defs, def)
      [] OTHER -> Unimplemented

(***************************************************************************)
(* The type-definition emitter driven through the public constructors.     *)
(***************************************************************************)
RECURSIVE Size(_)
\* The number of Type nodes of t, t included.
Size(t) ==
    IF Len(t.fields) = 0 THEN 1 ELSE 1 + Size(t.fields[1].type) + Size([t EXCEPT !.fields = Tail(@)]) - 1

FieldsSize(fields) == Size(struct_type("", fields)) - 1

RECURSIVE Nodes(_)
\* Every Type reachable in t, t included.
Nodes(t) == {t} \cup UNION {Nodes(t.fields[i].type) : i \in 1..Len(t.fields)}

\* A name denotes one type: the types of ts, and the types nested in them,
\* that carry the same name are the same type.
WellNamed(ts) ==
    LET all == UNION {Nodes(t) : t \in ts}
    IN  \A a, b \in all : a.name = b.name => a = b

StructNames == {"point2d", "line"}
FieldNames == <<"x", "y", "z", "w">>
INT4RANGE == range_type("int4range", TypeNew("int4", "Simple", <<>>, <<>>))
INT4MULTIRANGE == TypeNew("int4multirange", "Multirange", <<>>, <<>>)
MOOD == enum_type("mood", <<"sad", "ok">>)
LeafTypes == {INT2, MOOD, INT4RANGE, INT4MULTIRANGE}

NoDefs == [called |-> FALSE, list |-> <<>>]

NoOut == [op |-> "", some |-> FALSE, v |-> ""]

\* The unit value (), in the record shape of every host value.
Unit ==
    [wrap |-> "", rust |-> "()", present |-> TRUE, b |-> FALSE, n |-> 0, s |-> "",
     items |-> <<>>]

TableIdle ==
    /\ columns = <<>>
    /\ constraints = <<>>
    /\ out = NoOut

HostIdle ==
    /\ val = Unit
    /\ rows = <<>>
    /\ executed = <<>>

EmitInit ==
    /\ ty \in LeafTypes
    /\ fieldsAcc = <<>>
    /\ defs = NoDefs
    /\ TableIdle
    /\ HostIdle
    /\ builder = <<>>
    /\ pg_type = {}

\* Start over from a standard type; the collected fields are kept.
UseLeaf ==
    /\ \E t \in LeafTypes : ty' = t
    /\ defs' = NoDefs
    /\ UNCHANGED fieldsAcc

\* (name, type.clone()) is added to the slice later handed to struct_type.
PushField ==
    /\ Len(fieldsAcc) < MaxFields
    /\ FieldsSize(fieldsAcc) + Size(ty) < MaxNodes
    /\ WellNamed({ty} \cup {fieldsAcc[i].type : i \in 1..Len(fieldsAcc)})
    /\ fieldsAcc' = Append(fieldsAcc, Field(FieldNames[Len(fieldsAcc) + 1], ty))
    /\ defs' = NoDefs
    /\ UNCHANGED ty

StructType ==
    /\ \E n \in StructNames :
          /\ WellNamed({struct_type(n, fieldsAcc)})
          /\ ty' = struct_type(n, fieldsAcc)
    /\ fieldsAcc' = <<>>
    /\ defs' = NoDefs

ArrayType ==
    /\ Size(ty) < MaxNodes
    /\ ty' = array_type(ty)
    /\ defs' = NoDefs
    /\ UNCHANGED fieldsAcc

DomainType ==
    /\ Size(ty) < MaxNodes
    /\ WellNamed({domain_type("dom", ty)})
    /\ ty' = domain_type("dom", ty)
    /\ defs' = NoDefs
    /\ UNCHANGED fieldsAcc

\* Column::create_types_sql: ObjectAndCreateSql::from_type(self.db_type()).
FromType ==
    /\ defs' = [called |-> TRUE, list |-> from_type(ty)]
    /\ UNCHANGED <<ty, fieldsAcc>>

EmitNext ==
    \/ UseLeaf /\ UNCHANGED <<tableVars, hostVars, columnVars, serverVars>>
    \/ PushField /\ UNCHANGED <<tableVars, hostVars, columnVars, serverVars>>
    \/ StructType /\ UNCHANGED <<tableVars, hostVars, columnVars, serverVars>>
    \/ ArrayType /\ UNCHANGED <<tableVars, hostVars, columnVars, serverVars>>
    \/ DomainType /\ UNCHANGED <<tableVars, hostVars, columnVars, serverVars>>
    \/ FromType /\ UNCHANGED <<tableVars, hostVars, columnVars, serverVars>>

SpecEmit == EmitInit /\ [][EmitNext]_vars

(***************************************************************************)
(* Properties of the type-definition emitter.                              *)
(***************************************************************************)
\* The names of the types reachable in t that need a definition of their own.
NamedIn(t) == {n.name : n \in {m \in Nodes(t) : m.kind \in {"Composite", "Domain", "Enum"}}}

Supported(t) == \A n \in Nodes(t) : n.kind # "Multirange"

OwnDef(c) == IF c.kind = "Composite" THEN composite_def(c) ELSE domain_def(c)

\* C1: the list from_type returns for a type holds no two entries with the
\* same type name, also when a named composite occurs at several places of
\* the type.
C1_NoDuplicateNames ==
    defs.called =>
        \A i, j \in 1..Len(defs.list) :
            i # j => defs.list[i].name # defs.list[j].name

DbScalar(kind) == [kind |-> kind, name |-> "", size |-> -1, fields |-> <<>>, labels |-> <<>>]

Boolean == DbScalar("Boolean")
Int16 == DbScalar("Int16")
Int32 == DbScalar("Int32")
Int64 == DbScalar("Int64")
Uuid == DbScalar("Uuid")
Float == DbScalar("Float")
Double == DbScalar("Double")
Date == DbScalar("Date")
Json == DbScalar("Json")
Char(size) == [DbScalar("Char") EXCEPT !.size = size]
VarChar(size) == [DbScalar("VarChar") EXCEPT !.size = size]
String == DbScalar("String")
Array(elem) == [DbScalar("DbType::Array") EXCEPT !.fields = <<Field("", elem)>>]

RECURSIVE HostOf(_)
\* The Rust type the rows of the tests hold for a column of the type: a
\* struct is held as the tuple its StructType::as_vec downcasts to.
HostOf(t) ==
    CASE t.kind = "Boolean" -> "bool"
      [] t.kind = "Int16" -> "i16"
      [] t.kind = "Int32" -> "i32"
      [] t.kind = "Int64" -> "i64"
      [] t.kind = "Uuid" -> "Uuid"
      [] t.kind = "Float" -> "f32"
      [] t.kind = "Double" -> "f64"
      [] t.kind = "Char" -> IF t.size \in {-1, 1} THEN "char" ELSE "String"
      [] t.kind = "CustomStruct" -> "(" \o Join(t.labels, ", ") \o ")"
      [] t.kind = "DbType::Array" -> "Vec<" \o HostOf(Inner(t)) \o ">"
      [] OTHER -> "String"

\* A Box<dyn StructType> in the manner of tests_custom::PointType: `labels`
\* holds the component types of the tuple its as_vec downcasts to.
CustomStruct(name, fields) ==
    [DbScalar("CustomStruct") EXCEPT !.name = name, !.fields = fields,
                                     !.labels = [i \in 1..Len(fields) |-> HostOf(fields[i].type)]]

DbKinds == {"Boolean", "Int16", "Int32", "Int64", "Uuid", "Float", "Double", "Date", "Json",
            "Char", "VarChar", "String", "CustomStruct", "DbType::Array"}

None == [some |-> FALSE, v |-> ""]
Some(v) == [some |-> TRUE, v |-> v]

RECURSIVE DbTypeDisplay(_)
\* impl fmt::Display for DbType
DbTypeDisplay(t) ==
    CASE t.kind = "Boolean" -> "boolean"
      [] t.kind = "Int16" -> "smallint"
      [] t.kind = "Int32" -> "integer"
      [] t.kind = "Int64" -> "bigint"
      [] t.kind = "Uuid" -> "uuid"
      [] t.kind = "Float" -> "real"
      [] t.kind = "Double" -> "double precision"
      [] t.kind = "Date" -> "date"
      [] t.kind = "Json" -> "json"
      [] t.kind = "Char" ->
            IF t.size >= 0 THEN "char(" \o ToString(t.size) \o ")" ELSE "char"
      [] t.kind = "VarChar" ->
            IF t.size >= 0 THEN "varchar(" \o ToString(t.size) \o ")" ELSE "varchar"
      [] t.kind = "String" -> "text"
      [] t.kind = "CustomStruct" -> t.name
      [] t.kind = "DbType::Array" -> DbTypeDisplay(Inner(t)) \o " ARRAY"

\* A create_sql in which an array never asks its element type.
create_sql_no_array(t) ==
    IF t.kind = "CustomStruct"
    THEN Some("CREATE TYPE " \o t.name \o " AS ("
              \o Join([i \in 1..Len(t.fields) |->
                         t.fields[i].name \o " " \o DbTypeDisplay(t.fields[i].type)], ", ")
              \o ")")
    ELSE None

RECURSIVE create_sql(_)
\* DbType::create_sql
create_sql(t) ==
    CASE t.kind = "CustomStruct" ->
            Some("CREATE TYPE " \o t.name \o " AS ("
                 \o Join([i \in 1..Len(t.fields) |->
                            t.fields[i].name \o " " \o DbTypeDisplay(t.fields[i].type)], ", ")
                 \o ")")
      [] t.kind = "DbType::Array" -> create_sql(Inner(t))
      [] OTHER -> None

(***************************************************************************)
(* column.rs: ColumnBuilder and Column.  An Option is a sequence of at     *)
(* most one element.                                                       *)
(***************************************************************************)
ColumnBuilderNew(name, db_type) ==
    [name |-> name, db_type |-> db_type, nullable |-> FALSE, unique |-> FALSE,
     primary_key |-> FALSE, foreign_key |-> <<>>, index |-> <<>>]

nullable(b) == [b EXCEPT !.nullable = TRUE]

unique(b) == [b EXCEPT !.unique = TRUE]

\* A primary_key that leaves the uniqueness flag alone.
primary_key_only(b) == [b EXCEPT !.primary_key = TRUE]

primary_key(b) == [b EXCEPT !.primary_key = TRUE, !.unique = TRUE]

foreign_key(b, table_name, column) == [b EXCEPT !.foreign_key = <<<<table_name, column>>>>]

index_with(b, method) == [b EXCEPT !.index = <<method>>]

IndexMethodDefault == "BTree"

index(b) == index_with(b, IndexMethodDefault)

finish(b) ==
    [name |-> b.name, db_type |-> b.db_type, nullable |-> b.nullable, unique |-> b.unique,
     primary_key |-> b.primary_key, foreign_key |-> b.foreign_key, index |-> b.index]

ColumnNew(name, db_type) ==
    [name |-> name, db_type |-> db_type, nullable |-> FALSE, unique |-> FALSE,
     primary_key |-> FALSE, foreign_key |-> <<>>, index |-> <<>>]

\* Column::is_unique
is_unique(c) == c.nullable

\* The Display of a column's type, a postgres Type or a DbType.
DbTypeToString(t) == IF t.kind \in DbKinds THEN DbTypeDisplay(t) ELSE TypeDisplay(t)

\* A Display that writes PRIMARY KEY ahead of UNIQUE.
ColumnDisplay_key_first(c) ==
    c.name \o " " \o (IF c.db_type.kind = "Array"
                      THEN DbTypeToString(Inner(c.db_type)) \o "[]"
                      ELSE DbTypeToString(c.db_type))
        \o (IF c.nullable THEN " NULL" ELSE " NOT NULL")
        \o (IF c.primary_key THEN " PRIMARY KEY" ELSE "")
        \o (IF c.unique THEN " UNIQUE" ELSE "")
        \o (IF Len(c.foreign_key) > 0
            THEN " REFERENCES " \o c.foreign_key[1][1] \o "(" \o c.foreign_key[1][2] \o ")"
            ELSE "")

\* impl Display for Column
ColumnDisplay(c) ==
    LET nullable_s == IF c.nullable THEN " NULL" ELSE " NOT NULL"
        unique_s == IF c.unique THEN " UNIQUE" ELSE ""
        primary_key_s == IF c.primary_key THEN " PRIMARY KEY" ELSE ""
        foreign_key_s ==
            IF Len(c.foreign_key) > 0
            THEN " REFERENCES " \o c.foreign_key[1][1] \o "(" \o c.foreign_key[1][2] \o ")"
            ELSE ""
        type_desc ==
            IF c.db_type.kind = "Array"
            THEN DbTypeToString(Inner(c.db_type)) \o "[]"
            ELSE DbTypeToString(c.db_type)
    IN  c.name \o " " \o type_desc \o nullable_s \o unique_s \o primary_key_s \o foreign_key_s

\* impl Display for IndexMethod
IndexMethodDisplay(method) == IF method = "BTree" THEN "btree" ELSE "hash"

\* An index name that leads with the table.
generate_name_table_first(idx) == idx.table_name \o "_idx_" \o idx.column_name

\* Index::generate_name
generate_name(idx) == idx.column_name \o "_idx_" \o idx.table_name

\* impl Display for Index
IndexDisplay(idx) ==
    "CREATE INDEX IF NOT EXISTS " \o generate_name(idx) \o " ON " \o idx.table_name
        \o " USING " \o IndexMethodDisplay(idx.method) \o " (" \o idx.column_name \o ")"

\* An entry for every column, a btree index where none was declared.
create_index_sql_always(c, table_name) ==
    <<ObjectAndCreateSqlNew(c.name,
          IndexDisplay([table_name |-> table_name, column_name |-> c.name,
                        method |-> IF c.index = <<>> THEN "BTree" ELSE c.index[1]]))>>

\* Column::create_index_sql: the entry named after the column, for a column
\* that declared an index.
create_index_sql(c, table_name) ==
    [i \in 1..Len(c.index) |->
        ObjectAndCreateSqlNew(c.name,
            IndexDisplay([table_name |-> table_name, column_name |-> c.name,
                          method |-> c.index[i]]))]

(***************************************************************************)
(* constraint.rs                                                           *)
(***************************************************************************)
ConstraintRecord(kind, name) ==
    [kind |-> kind, name |-> name, condition |-> "", columns |-> <<>>,
     target_table |-> "", column_pairs |-> <<>>, with_nulls_non_distinct |-> FALSE]

CheckConstraintNew(name, condition) ==
    [ConstraintRecord("Check", name) EXCEPT !.condition = condition]

PrimaryKeyConstraintNew(name, cols) ==
    [ConstraintRecord("PrimaryKey", name) EXCEPT
        !.columns = [i \in 1..Len(cols) |-> cols[i].name]]

\* A constructor that takes each pair destination first.
ForeignKeyConstraintNew_swapped(name, target_table, column_pairs) ==
    [ConstraintRecord("ForeignKey", name) EXCEPT
        !.target_table = target_table,
        !.column_pairs = [i \in 1..Len(column_pairs) |->
                             <<column_pairs[i][2].name, column_pairs[i][1].name>>]]

ForeignKeyConstraintNew(name, target_table, column_pairs) ==
    [ConstraintRecord("ForeignKey", name) EXCEPT
        !.target_table = target_table,
        !.column_pairs = [i \in 1..Len(column_pairs) |->
                             <<column_pairs[i][1].name, column_pairs[i][2].name>>]]

UniqueConstraintNew(name, cols) ==
    [ConstraintRecord("Unique", name) EXCEPT
        !.columns = [i \in 1..Len(cols) |-> cols[i].name]]

\* Constraint::body of the four implementations
body(k) ==
    CASE k.kind = "Check" -> "CHECK (" \o k.condition \o ")"
      [] k.kind = "PrimaryKey" -> "PRIMARY KEY (" \o Join(k.columns, ", ") \o ")"
      [] k.kind = "ForeignKey" ->
            LET src == [i \in 1..Len(k.column_pairs) |-> k.column_pairs[i][1]]
                dest == [i \in 1..Len(k.column_pairs) |-> k.column_pairs[i][2]]
            IN  "FOREIGN KEY (" \o Join(src, ", ") \o ") REFERENCES " \o k.target_table
                    \o " (" \o Join(dest, ", ") \o ")"
      [] k.kind = "Unique" ->
            IF k.with_nulls_non_distinct
            THEN "UNIQUE NULLS NOT DISTINCT (" \o Join(k.columns, ", ") \o ")"
            ELSE "UNIQUE (" \o Join(k.columns, ", ") \o ")"

\* Constraint::as_sql
as_sql(k) == "CONSTRAINT " \o k.name \o " " \o body(k)

(***************************************************************************)
(* table.rs: the DDL statements of a Table.                                *)
(***************************************************************************)
RECURSIVE Unique(_)
\* itertools::Itertools::unique: the first occurrence of every item, in order.
Unique(items) ==
    IF Len(items) = 0 THEN <<>>
    ELSE LET init == Unique(SubSeq(items, 1, Len(items) - 1))
             last == items[Len(items)]
         IN  IF last \in Range(init) THEN init ELSE Append(init, last)

\* filter_map(|col| col.db_type().create_sql()): the Some values, in column order.
CreateSqlOfColumns(cols) ==
    LET all == [i \in 1..Len(cols) |-> create_sql(cols[i].db_type)]
        kept == SelectSeq(all, LAMBDA o : o.some)
    IN  [i \in 1..Len(kept) |-> kept[i].v]

\* Table::create_types_sql
create_types_sql(cols) ==
    LET types == Join(Unique(CreateSqlOfColumns(cols)), "; ")
    IN  IF types = "" THEN None ELSE Some(types \o ";")

\* A create_table_sql that closes the column list with a comma of its own.
create_table_sql_trailing(name, cols, cons) ==
    "CREATE TABLE IF NOT EXISTS " \o name \o " ("
        \o Join([i \in 1..Len(cols) |-> ColumnDisplay(cols[i])], ", ") \o ", "
        \o Join([i \in 1..Len(cons) |-> as_sql(cons[i])], ",") \o ");"

\* Table::create_table_sql
create_table_sql(name, cols, cons) ==
    LET columns_s == Join([i \in 1..Len(cols) |-> ColumnDisplay(cols[i])], ", ")
        constraints_s == Join([i \in 1..Len(cons) |-> as_sql(cons[i])], ",")
        sql == IF constraints_s # "" THEN columns_s \o ", " \o constraints_s ELSE columns_s
    IN  "CREATE TABLE IF NOT EXISTS " \o name \o " (" \o sql \o ");"

(***************************************************************************)
(* A table declared column by column and constraint by constraint, and     *)
(* its DDL statements.                                                     *)
(***************************************************************************)
TableName == "t"
ColumnNames == <<"a", "b", "c", "d", "e">>

\* what tests_custom::PointType answers, and a second StructType that also
\* answers name() = "point2d"
Point2d == CustomStruct("point2d", <<Field("x", Int16), Field("y", Int16)>>)
Point3d == CustomStruct("point2d", <<Field("x", Int16), Field("y", Int16), Field("z", Int16)>>)

\* The column declarations a table draws from: (type, nullable).
ColumnChoices ==
    {<<Int16, FALSE>>, <<Array(Int16), FALSE>>, <<Point2d, FALSE>>, <<Point2d, TRUE>>,
     <<Point3d, FALSE>>, <<Array(Point2d), FALSE>>}

DeclareColumn(name, choice) ==
    IF choice[2]
    THEN finish(nullable(ColumnBuilderNew(name, choice[1])))
    ELSE finish(ColumnBuilderNew(name, choice[1]))

\* The columns of the table `bar` the foreign key points to.
BarColumns == <<ColumnNew("x", Int16), ColumnNew("y", Int16), ColumnNew("z", Int16)>>

\* unique_with_indices!(name => [..]): every UniqueConstraint that the public
\* constructor gives for the columns, one column or the first two.
UniqueConstraints(name, cols) ==
    {UniqueConstraintNew(name, <<cols[i]>>) : i \in 1..Len(cols)}
        \cup {UniqueConstraintNew(name, SubSeq(cols, 1, 2)) : i \in 2..Len(cols)}

\* primary_key_with_indices!("pk" => [0]),
\* foreign_key_with_indices!("fk" => Bar [0=>1, 1=>2]), a CHECK and
\* unique_with_indices!("uq" => [0])
ConstraintChoices(cols) ==
    {PrimaryKeyConstraintNew("pk", <<cols[1]>>),
     UniqueConstraintNew("uq", <<cols[1]>>),
     CheckConstraintNew("chk", cols[1].name \o " IS NOT NULL"),
     ForeignKeyConstraintNew("fk", "bar",
         [i \in 1..(IF Len(cols) >= 2 THEN 2 ELSE 1) |-> <<cols[i], BarColumns[i + 1]>>])}

TableInit ==
    /\ TableIdle
    /\ HostIdle
    /\ builder = <<>>
    /\ pg_type = {}
    /\ ty = INT2
    /\ fieldsAcc = <<>>
    /\ defs = NoDefs

AddColumn ==
    /\ Len(columns) < MaxColumns
    /\ \E ch \in ColumnChoices :
          columns' = Append(columns, DeclareColumn(ColumnNames[Len(columns) + 1], ch))
    /\ out' = NoOut
    /\ UNCHANGED constraints

AddConstraint ==
    /\ Len(columns) >= 1
    /\ Len(constraints) < MaxConstraints
    /\ \E k \in ConstraintChoices(columns) :
          /\ \A i \in 1..Len(constraints) : constraints[i].name # k.name
          /\ constraints' = Append(constraints, k)
    /\ out' = NoOut
    /\ UNCHANGED columns

CreateTypesSql ==
    /\ out' = [op |-> "create_types_sql"] @@ create_types_sql(columns)
    /\ UNCHANGED <<columns, constraints>>

CreateTableSql ==
    /\ out' = [op |-> "create_table_sql"] @@ Some(create_table_sql(TableName, columns, constraints))
    /\ UNCHANGED <<columns, constraints>>

TableNext ==
    \/ AddColumn /\ UNCHANGED <<emitVars, hostVars, columnVars, serverVars>>
    \/ AddConstraint /\ UNCHANGED <<emitVars, hostVars, columnVars, serverVars>>
    \/ CreateTypesSql /\ UNCHANGED <<emitVars, hostVars, columnVars, serverVars>>
    \/ CreateTableSql /\ UNCHANGED <<emitVars, hostVars, columnVars, serverVars>>

SpecTable == TableInit /\ [][TableNext]_vars

(***************************************************************************)
(* Reading a generated statement back: the helpers of the properties.      *)
(***************************************************************************)
StartsWith(s, p) == Len(s) >= Len(p) /\ SubSeq(s, 1, Len(p)) = p

EndsWith(s, p) == Len(s) >= Len(p) /\ SubSeq(s, Len(s) - Len(p) + 1, Len(s)) = p

\* Whether p occurs in s.
Contains(s, p) == \E i \in 1..(Len(s) - Len(p) + 1) : SubSeq(s, i, i + Len(p) - 1) = p

RECURSIVE Find(_, _, _)
\* The index of the first occurrence of sep in s at or after i, 0 for none.
Find(s, sep, i) ==
    IF i + Len(sep) - 1 > Len(s) THEN 0
    ELSE IF SubSeq(s, i, i + Len(sep) - 1) = sep THEN i
    ELSE Find(s, sep, i + 1)

RECURSIVE Split(_, _)
\* The pieces of s between the occurrences of sep.
Split(s, sep) ==
    LET k == Find(s, sep, 1)
    IN  IF k = 0 THEN <<s>>
        ELSE <<SubSeq(s, 1, k - 1)>> \o Split(SubSeq(s, k + Len(sep), Len(s)), sep)

RECURSIVE FindTopComma(_, _, _)
\* The index of the first comma of s at or after i outside every parenthesis.
FindTopComma(s, i, depth) ==
    IF i > Len(s) THEN 0
    ELSE LET ch == SubSeq(s, i, i)
         IN  CASE ch = "(" -> FindTopComma(s, i + 1, depth + 1)
               [] ch = ")" -> FindTopComma(s, i + 1, depth - 1)
               [] ch = "," /\ depth = 0 -> i
               [] OTHER -> FindTopComma(s, i + 1, depth)

RECURSIVE SplitItems(_)
SplitItems(s) ==
    LET k == FindTopComma(s, 1, 0)
    IN  IF k = 0 THEN <<s>>
        ELSE <<SubSeq(s, 1, k - 1)>> \o SplitItems(SubSeq(s, k + 1, Len(s)))

\* The items of a parenthesised SQL list: a comma with nothing after it
\* yields a last, empty item.
SplitTop(s) == IF s = "" THEN <<>> ELSE SplitItems(s)

RECURSIVE TrimStart(_)
TrimStart(s) == IF StartsWith(s, " ") THEN TrimStart(SubSeq(s, 2, Len(s))) ELSE s

(***************************************************************************)
(* Properties of the DDL statements of a table.                            *)
(***************************************************************************)
RECURSIVE ElementType(_)
\* The type under every array level.
ElementType(t) == IF t.kind = "DbType::Array" THEN ElementType(Inner(t)) ELSE t

StandardKinds == DbKinds \ {"CustomStruct", "DbType::Array"}

NeedsDefinition(t) == ElementType(t).kind \notin StandardKinds

\* The names of the types the columns need a definition for, first seen first.
DefinedNames(cols) ==
    LET needing == SelectSeq(cols, LAMBDA c : NeedsDefinition(c.db_type))
    IN  Unique([i \in 1..Len(needing) |-> ElementType(needing[i].db_type).name])

\* The statements of a create_types_sql result.
TypeStatements(o) ==
    IF o.some THEN Split(SubSeq(o.v, 1, Len(o.v) - 1), "; ") ELSE <<>>

\* C3: create_types_sql holds exactly one CREATE TYPE statement for every
\* distinct type name the columns reference, in first-seen order, however
\* many columns reference the name (deduplication by type name).
C3_OneStatementPerTypeName ==
    out.op = "create_types_sql" =>
        LET names == DefinedNames(columns)
            stmts == TypeStatements(out)
        IN  /\ Len(stmts) = Len(names)
            /\ \A i \in 1..Len(stmts) :
                  StartsWith(stmts[i], "CREATE TYPE " \o names[i] \o " AS (")

\* C4: create_types_sql is None exactly when every column type is a standard
\* scalar or an array of standard scalars; otherwise it is Some statement
\* text.
C4_NoneIffNoCustomType ==
    out.op = "create_types_sql" =>
        /\ (~out.some) <=> (\A i \in 1..Len(columns) : ~NeedsDefinition(columns[i].db_type))
        /\ out.some => StartsWith(out.v, "CREATE TYPE ") /\ EndsWith(out.v, ";")

\* create_types_sql answered None for a table that has an array column.
C4_Witness ==
    /\ out.op = "create_types_sql"
    /\ ~out.some
    /\ \E i \in 1..Len(columns) : columns[i].db_type.kind = "DbType::Array"

\* The parenthesised body of a CREATE TABLE statement.
TableBody(sql) ==
    SubSeq(sql, Len("CREATE TABLE IF NOT EXISTS " \o TableName \o " (") + 1, Len(sql) - 2)

\* C5: in create_table_sql the items of the body are the column definitions,
\* in column order, followed by the constraint fragments; with no constraint
\* the body holds the column definitions alone and ends with no comma.
C5_ColumnsBeforeConstraints ==
    out.op = "create_table_sql" =>
        LET items == SplitTop(TableBody(out.v))
            n == Len(columns)
        IN  /\ StartsWith(out.v, "CREATE TABLE IF NOT EXISTS " \o TableName \o " (")
            /\ EndsWith(out.v, ");")
            /\ Len(items) = n + Len(constraints)
            /\ \A i \in 1..Len(items) :
                  IF i <= n
                  THEN TrimStart(items[i]) = ColumnDisplay(columns[i])
                  ELSE StartsWith(TrimStart(items[i]), "CONSTRAINT ")
            /\ constraints = <<>> =>
                  TableBody(out.v) = Join([i \in 1..n |-> ColumnDisplay(columns[i])], ", ")

\* A CREATE TABLE of two columns or more and a constraint has been rendered.
C5_Witness ==
    /\ out.op = "create_table_sql"
    /\ Len(columns) >= 2
    /\ Len(constraints) >= 1

\* C6: with two constraints or more, the body of create_table_sql is its
\* items, the column definitions then CONSTRAINT <name> <body> in declaration
\* order, every two neighbours separated by exactly ", ".
C6_CommaSpaceEverywhere ==
    (out.op = "create_table_sql" /\ Len(constraints) >= 2) =>
        TableBody(out.v) =
            Join([i \in 1..Len(columns) |-> ColumnDisplay(columns[i])]
                     \o [i \in 1..Len(constraints) |-> as_sql(constraints[i])], ", ")

\* C23: a foreign key built from the pairs (s1, d1) .. (sn, dn) of columns
\* reads CONSTRAINT <name> FOREIGN KEY (s1, ..., sn) REFERENCES <target>
\* (d1, ..., dn): as many sources and destinations as pairs, the i-th source
\* and the i-th destination those of the i-th pair.  The pairs of `fk` are
\* the leading columns of the table with the columns of bar after its first.
C23_ForeignKeyPairs ==
    \A k \in 1..Len(constraints) :
        (out.op = "create_table_sql" /\ constraints[k].kind = "ForeignKey") =>
            Contains(out.v,
                "CONSTRAINT fk FOREIGN KEY ("
                    \o Join([i \in 1..Len(constraints[k].column_pairs) |-> columns[i].name], ", ")
                    \o ") REFERENCES bar ("
                    \o Join([i \in 1..Len(constraints[k].column_pairs) |->
                                BarColumns[i + 1].name], ", ")
                    \o ")")

\* A foreign key of two pairs has been written after another constraint.
C23_Witness ==
    /\ out.op = "create_table_sql"
    /\ Len(constraints) = 2
    /\ constraints[2].kind = "ForeignKey"
    /\ Contains(out.v, "CONSTRAINT fk FOREIGN KEY (a, b) REFERENCES bar (y, z)")

\* C24: a unique constraint reads UNIQUE NULLS NOT DISTINCT (<cols>) when
\* its nulls-not-distinct flag is set and UNIQUE (<cols>) otherwise, and
\* for the columns of a table the public constructor gives a constraint of
\* either form.
C24_BothUniqueForms ==
    /\ \A k \in 1..Len(constraints) :
          (out.op = "create_table_sql" /\ constraints[k].kind = "Unique") =>
              Contains(out.v,
                       "CONSTRAINT " \o constraints[k].name
                           \o (IF constraints[k].with_nulls_non_distinct
                               THEN " UNIQUE NULLS NOT DISTINCT ("
                               ELSE " UNIQUE (")
                           \o Join(constraints[k].columns, ", ") \o ")")
    /\ columns # <<>> =>
          \A form \in {"UNIQUE (", "UNIQUE NULLS NOT DISTINCT ("} :
              \E k \in UniqueConstraints("uq", columns) : StartsWith(body(k), form)

(***************************************************************************)
(* value.rs, types.rs: the values handed to the codec.  A &dyn Any is a    *)
(* record of its concrete Rust type (`wrap` is "", "Option" or "Nullable"  *)
(* around `rust`) and its payload: `b` of a bool, `n` of an integer, `s`   *)
(* the text of a char, String, Uuid or float, `items` the components of a  *)
(* tuple or the elements of a Vec.  `present` is FALSE for Option::None    *)
(* and Nullable::Null.  Strings are ASCII, so len() counts characters.     *)
(***************************************************************************)
Host(rust, b, n, s, items) ==
    [wrap |-> "", rust |-> rust, present |-> TRUE, b |-> b, n |-> n, s |-> s, items |-> items]

HostBool(b) == Host("bool", b, 0, "", <<>>)
HostInt(rust, n) == Host(rust, FALSE, n, "", <<>>)
HostText(rust, s) == Host(rust, FALSE, 0, s, <<>>)
HostTuple(items) ==
    Host("(" \o Join([i \in 1..Len(items) |-> items[i].rust], ", ") \o ")", FALSE, 0, "", items)
HostVec(elem, items) == Host("Vec<" \o elem \o ">", FALSE, 0, "", items)

\* std Option<T>
SomeOf(v) == [v EXCEPT !.wrap = "Option"]
NoneOf(rust) == [Unit EXCEPT !.wrap = "Option", !.rust = rust, !.present = FALSE]

\* enum Nullable<T>
Val(v) == [v EXCEPT !.wrap = "Nullable"]
Null(rust) == [Unit EXCEPT !.wrap = "Nullable", !.rust = rust, !.present = FALSE]

\* A downcast that looks through Option<T> and Nullable<T>.
downcast_ref_any_wrap(v, wrap, rust) == v.rust = rust /\ v.present

\* <dyn Any>::downcast_ref::<wrap<rust>>().is_some()
downcast_ref(v, wrap, rust) == v.wrap = wrap /\ v.rust = rust

\* impl Display of the payload (of the inner value for an Option or Nullable)
Show(v) ==
    CASE v.rust = "bool" -> IF v.b THEN "true" ELSE "false"
      [] v.rust \in {"i16", "i32", "i64"} -> ToString(v.n)
      [] OTHER -> v.s

\* A panic unwinding through a function that returns Option<String>.
Panic(msg) == [some |-> FALSE, v |-> "panic: " \o msg]

IsAbort(r) == ~r.some /\ r.v # ""

\* todo!()
Todo == Panic("not yet implemented")

\* format!("..{}..", csv): a Display that answers Err(fmt::Error) panics.
FormatPanics == Panic("a formatting trait implementation returned an error")

(***************************************************************************)
(* types.rs: the value codec.                                              *)
(***************************************************************************)
\* DbType::format, `shown` being the Display of the value
format(t, shown) ==
    CASE t.kind \in {"Boolean", "Int16", "Int32", "Int64", "Float", "Double"} -> shown
      [] t.kind \in {"Uuid", "Char", "VarChar", "String"} -> "'" \o shown \o "'"
      [] t.kind = "CustomStruct" -> "ROW(" \o shown \o ")::" \o t.name
      [] t.kind = "DbType::Array" -> "{" \o shown \o "}"
      [] OTHER -> Todo.v

\* A format_opt that renders NULL for a present value too.
format_opt_always_null(t, present, shown) == "NULL"

\* DbType::format_opt
format_opt(t, present, shown) == IF present THEN format(t, shown) ELSE "NULL"

\* StructType::as_vec of the tests: the components of the tuple, None for
\* any other type.
StructAsVec(t, v) ==
    IF downcast_ref(v, "", HostOf(t)) THEN [tag |-> "Some", items |-> v.items]
    ELSE [tag |-> "None", items |-> <<>>]

\* StructType::as_nullable_vec of the tests: downcasts to Option<tuple>.
StructAsNullableVec(t, v) ==
    IF downcast_ref(v, "Option", HostOf(t))
    THEN [tag |-> IF v.present THEN "Val" ELSE "Null", items |-> v.items]
    ELSE [tag |-> "None", items |-> <<>>]

\* The element types DbType::as_vec has an arm for.
VecElemHosts(t) ==
    CASE t.kind = "Char" -> IF t.size \in {-1, 1} THEN <<"char", "String">> ELSE <<"String">>
      [] t.kind \in {"VarChar", "String"} -> <<"String">>
      [] OTHER -> <<HostOf(t)>>

\* An as_vec that answers None for every element type.
as_vec_none(t, v) == [tag |-> "None", items |-> <<>>]

\* DbType::as_vec (convert_to_vec_of!)
as_vec(t, v) ==
    CASE t.kind \in {"Date", "Json", "CustomStruct"} -> [tag |-> "Panic", items |-> <<>>]
      [] t.kind = "DbType::Array" -> [tag |-> "Panic", items |-> <<>>]
      [] OTHER ->
            IF \E i \in 1..Len(VecElemHosts(t)) :
                   downcast_ref(v, "", "Vec<" \o VecElemHosts(t)[i] \o ">")
            THEN [tag |-> "Some", items |-> v.items]
            ELSE [tag |-> "None", items |-> <<>>]

\* DbType::as_nullable_vec (convert_to_nullable_vec_of!)
as_nullable_vec(t, v) ==
    CASE t.kind \in {"Date", "Json", "CustomStruct"} -> [tag |-> "Panic", items |-> <<>>]
      [] t.kind = "DbType::Array" -> [tag |-> "Panic", items |-> <<>>]
      [] OTHER ->
            IF \E i \in 1..Len(VecElemHosts(t)) :
                   downcast_ref(v, "Nullable", "Vec<" \o VecElemHosts(t)[i] \o ">")
            THEN [tag |-> IF v.present THEN "Val" ELSE "Null", items |-> v.items]
            ELSE [tag |-> "None", items |-> <<>>]

\* fields().zip(values) with the values taken last first.
StructCsvFromVals_reversed(t, values) ==
    [i \in 1..(IF Len(t.fields) < Len(values) THEN Len(t.fields) ELSE Len(values)) |->
        <<t.fields[i].type, values[Len(values) + 1 - i]>>]

\* The elements of an array taken last first.
ArrayCsvFromVals_reversed(t, values) ==
    [i \in 1..Len(values) |-> <<t, values[Len(values) + 1 - i]>>]

\* StructType::_csv_from_vals: fields().zip(values)
StructCsvFromVals(t, values) ==
    [i \in 1..(IF Len(t.fields) < Len(values) THEN Len(t.fields) ELSE Len(values)) |->
        <<t.fields[i].type, values[i]>>]

\* DbType::_csv_from_vals: every value against the element type
ArrayCsvFromVals(t, values) == [i \in 1..Len(values) |-> <<t, values[i]>>]

\* The loop of the two Display impls over the escaped values, in order: the
\* first that is not Some ends it.
WriteAll(escaped) ==
    IF \A i \in 1..Len(escaped) : escaped[i].some
    THEN Some(Join([i \in 1..Len(escaped) |-> escaped[i].v], ", "))
    ELSE LET first == CHOOSE i \in 1..Len(escaped) :
                          ~escaped[i].some /\ \A j \in 1..(i - 1) : escaped[j].some
         IN  IF IsAbort(escaped[first]) THEN escaped[first] ELSE None

\* Some(self.format(&csv)), or Some(self.format_opt(&Nullable::Val(csv)))
\* when `opt`, of a csv already displayed: format! panics when the Display
\* failed.
FormatShown(t, opt, shown) ==
    IF shown.some
    THEN Some(IF opt THEN format_opt(t, TRUE, shown.v) ELSE format(t, shown.v))
    ELSE IF IsAbort(shown) THEN shown
    ELSE FormatPanics

\* A length check that also refuses a string of exactly the declared size.
too_long_or_full(len, size) == len >= size

\* val.len() > size
too_long(len, size) == len > size

RECURSIVE escape_val(_, _)
\* impl Display for CommaSeparatedValues / CommaSeparatedVec: the escaped
\* values joined by ", "; None stands for Err(fmt::Error), which the first
\* value that fails to escape produces.
CommaSeparatedDisplay(pairs) ==
    WriteAll([i \in 1..Len(pairs) |-> escape_val(pairs[i][1], pairs[i][2])])

\* Some(self.format(&csv)), Some(self.format_opt(&csv)) when `opt`
FormatCsv(t, opt, pairs) == FormatShown(t, opt, CommaSeparatedDisplay(pairs))

\* DbType::escape_val
escape_val(t, v) ==
    CASE t.kind \in {"Boolean", "Int16", "Int32", "Int64", "Uuid", "Float", "Double"} ->
            IF downcast_ref(v, "", HostOf(t)) THEN Some(format(t, Show(v))) ELSE None
      [] t.kind \in {"Date", "Json"} -> Todo
      [] t.kind = "Char" ->
            LET size == IF t.size = -1 THEN 1 ELSE t.size
            IN  IF size = 1 /\ downcast_ref(v, "", "char") THEN Some(format(t, Show(v)))
                ELSE IF ~downcast_ref(v, "", "String") THEN None
                ELSE IF too_long(Len(v.s), size) THEN None
                ELSE Some(format(t, Show(v)))
      [] t.kind = "VarChar" ->
            IF ~downcast_ref(v, "", "String") THEN None
            ELSE IF t.size # -1 /\ too_long(Len(v.s), t.size) THEN None
            ELSE Some(format(t, Show(v)))
      [] t.kind = "String" ->
            IF downcast_ref(v, "", "String") THEN Some(format(t, Show(v))) ELSE None
      [] t.kind = "CustomStruct" ->
            LET values == StructAsVec(t, v)
            IN  IF values.tag = "None" THEN None
                ELSE FormatCsv(t, FALSE, StructCsvFromVals(t, values.items))
      [] t.kind = "DbType::Array" ->
            LET values == as_vec(Inner(t), v)
            IN  CASE values.tag = "Panic" -> Todo
                  [] values.tag = "None" -> None
                  [] OTHER -> FormatCsv(t, FALSE, ArrayCsvFromVals(Inner(t), values.items))

\* if let Some(not_null) = first { return Some(not_null); } second
IfNone(first, second) == IF first.some \/ IsAbort(first) THEN first ELSE second

\* The second half of escape_nullable_val: the match on Nullable<T>.
escape_null_arm(t, v) ==
    CASE t.kind \in {"Boolean", "Int16", "Int32", "Int64", "Uuid", "Float", "Double"} ->
            IF downcast_ref(v, "Nullable", HostOf(t))
            THEN Some(format_opt(t, v.present, Show(v)))
            ELSE None
      [] t.kind \in {"Date", "Json"} -> Todo
      [] t.kind = "Char" ->
            LET size == IF t.size = -1 THEN 1 ELSE t.size
                value_len == IF v.present THEN Len(v.s) ELSE 0
            IN  IF size = 1 /\ downcast_ref(v, "Nullable", "char")
                THEN Some(format_opt(t, v.present, Show(v)))
                ELSE IF ~downcast_ref(v, "Nullable", "String") THEN None
                ELSE IF too_long(value_len, size) THEN None
                ELSE Some(format_opt(t, v.present, Show(v)))
      [] t.kind = "VarChar" ->
            LET value_len == IF v.present THEN Len(v.s) ELSE 0
            IN  IF ~downcast_ref(v, "Nullable", "String") THEN None
                ELSE IF t.size # -1 /\ too_long(value_len, t.size) THEN None
                ELSE Some(format_opt(t, v.present, Show(v)))
      [] t.kind = "String" ->
            IF downcast_ref(v, "Nullable", "String")
            THEN Some(format_opt(t, v.present, Show(v)))
            ELSE None
      [] t.kind = "CustomStruct" ->
            LET values == StructAsNullableVec(t, v)
            IN  CASE values.tag = "None" -> None
                  [] values.tag = "Null" -> Some(format_opt(t, FALSE, ""))
                  [] OTHER -> FormatCsv(t, TRUE, StructCsvFromVals(t, values.items))
      [] t.kind = "DbType::Array" ->
            LET values == as_nullable_vec(Inner(t), v)
            IN  CASE values.tag = "Panic" -> Todo
                  [] values.tag = "None" -> None
                  [] values.tag = "Null" -> Some(format_opt(t, FALSE, ""))
                  [] OTHER -> FormatCsv(t, TRUE, ArrayCsvFromVals(Inner(t), values.items))

\* An escape_nullable_val that goes straight to the Nullable<T> match.
escape_nullable_val_match_only(t, v) == escape_null_arm(t, v)

\* DbType::escape_nullable_val: the non-null escape first, the Nullable<T>
\* match when it answers None.
escape_nullable_val(t, v) == IfNone(escape_val(t, v), escape_null_arm(t, v))

(***************************************************************************)
(* The codec applied to a type and a value.                                *)
(***************************************************************************)
MaxLen == 2   \* elements of a Vec handed to the codec

\* The sequences over S of length at most n.
SeqsUpTo(S, n) == UNION {[1..k -> S] : k \in 0..n}

\* tests_heterogeneous::IntWithLabelType, and a StructType whose label is a
\* varchar(3)
IntWithLabel == CustomStruct("with_label", <<Field("val", Int16), Field("label", VarChar(-1))>>)
ShortLabel == CustomStruct("short_label", <<Field("val", Int16), Field("label", VarChar(3))>>)

\* StructTypes with the fields of point2d whose as_vec answers three values,
\* and one value
WidePoint == [Point2d EXCEPT !.name = "wide_point", !.labels = <<"i16", "i16", "i16">>]
NarrowPoint == [Point2d EXCEPT !.name = "narrow_point", !.labels = <<"i16">>]

EscapeTypes ==
    {Boolean, Int16, Int32, Int64, Uuid, Float, Double, Date, Json,
     Char(-1), Char(1), Char(3), VarChar(-1), VarChar(3), String,
     Point2d, IntWithLabel, ShortLabel, WidePoint, NarrowPoint, Array(Int16), Array(VarChar(3)), Array(Point2d),
     Array(Array(Int16))}

ScalarHosts == {"bool", "i16", "i32", "i64", "Uuid", "f32", "f64", "char", "String"}

PlainValues ==
    {HostBool(TRUE), HostBool(FALSE), HostInt("i16", 5), HostInt("i16", -8),
     HostInt("i32", 42), HostInt("i64", 5),
     HostText("Uuid", "67e55044-10b1-426f-9247-bb680e5fe0c8"),
     HostText("f32", "8.25"), HostText("f64", "3.5"), HostText("char", "x"),
     HostText("String", ""), HostText("String", "a"), HostText("String", "NULL"),
     HostText("String", "abc"), HostText("String", "abcd")}
        \cup {HostTuple(<<HostInt("i16", 5), HostInt("i16", -8)>>),
     HostTuple(<<HostInt("i16", 5), HostInt("i16", -8), HostInt("i16", 5)>>),
     HostTuple(<<HostInt("i16", 5)>>),
     HostTuple(<<HostInt("i16", 5), HostText("String", "a")>>),
     HostTuple(<<HostInt("i16", 5), HostText("String", "abcd")>>)}
        \cup {HostVec("i16", items) : items \in SeqsUpTo({HostInt("i16", 5), HostInt("i16", -8)}, MaxLen)}
        \cup {HostVec("String", items) :
                 items \in SeqsUpTo({HostText("String", "a"), HostText("String", "abcd")}, MaxLen)}

EscapeValues ==
    PlainValues
        \cup {SomeOf(v) : v \in PlainValues} \cup {NoneOf(v.rust) : v \in PlainValues}
        \cup {Val(v) : v \in PlainValues} \cup {Null(v.rust) : v \in PlainValues}

EscapeInit ==
    /\ ty \in EscapeTypes
    /\ val \in EscapeValues
    /\ out = NoOut
    /\ fieldsAcc = <<>>
    /\ defs = NoDefs
    /\ columns = <<>>
    /\ constraints = <<>>
    /\ rows = <<>>
    /\ executed = <<>>
    /\ builder = <<>>
    /\ pg_type = {}

EscapeVal ==
    /\ out' = [op |-> "escape_val"] @@ escape_val(ty, val)
    /\ UNCHANGED <<ty, val>>

EscapeNullableVal ==
    /\ out' = [op |-> "escape_nullable_val"] @@ escape_nullable_val(ty, val)
    /\ UNCHANGED <<ty, val>>

EscapeNext ==
    \/ EscapeVal /\ UNCHANGED <<fieldsAcc, defs, columns, constraints, rows, executed, columnVars, serverVars>>
    \/ EscapeNullableVal /\ UNCHANGED <<fieldsAcc, defs, columns, constraints, rows, executed, columnVars, serverVars>>

SpecEscape == EscapeInit /\ [][EscapeNext]_vars

(***************************************************************************)
(* Properties of the codec.                                                *)
(***************************************************************************)
Escaped == out.op \in {"escape_val", "escape_nullable_val"}

\* C10: escaping a present scalar value, by escape_val or by
\* escape_nullable_val, never answers the literal NULL: the answer is a
\* failure or the rendering of the value itself, bare or in single quotes.
C10_PresentScalarNeverNull ==
    (Escaped /\ ty.kind \in StandardKinds /\ val.rust \in ScalarHosts /\ val.present) =>
        /\ ~(out.some /\ out.v = "NULL")
        /\ out.some => out.v \in {Show(val), "'" \o Show(val) \o "'"}

\* escape_nullable_val has rendered a Nullable::Val through its second match.
C10_Witness ==
    /\ out.op = "escape_nullable_val"
    /\ ty.kind \in StandardKinds
    /\ val.rust \in ScalarHosts
    /\ val.wrap = "Nullable"
    /\ val.present
    /\ out.some

\* The element kinds as_vec and as_nullable_vec do not implement.
UnimplementedElementKinds == {"DbType::Array", "CustomStruct", "Date", "Json"}

\* The host types a value of the kind is expected in.
ExpectedHosts(t) ==
    CASE t.kind = "Boolean" -> {"bool"}
      [] t.kind = "Int16" -> {"i16"}
      [] t.kind = "Int32" -> {"i32"}
      [] t.kind = "Int64" -> {"i64"}
      [] t.kind = "Uuid" -> {"Uuid"}
      [] t.kind = "Float" -> {"f32"}
      [] t.kind = "Double" -> {"f64"}
      [] t.kind = "Char" -> IF t.size \in {-1, 1} THEN {"char", "String"} ELSE {"String"}
      [] t.kind \in {"VarChar", "String"} -> {"String"}
      [] t.kind \in {"Date", "Json"} -> {}
      [] OTHER -> {HostOf(t)}

\* C11: escaping an absent value of the host type of the column, be it a
\* Nullable::Null or the Option::None that values() hands over, by
\* escape_nullable_val answers exactly NULL, for a scalar, a bounded
\* character type, a composite and an array alike.
C11_AbsentIsNull ==
    (out.op = "escape_nullable_val" /\ ~val.present /\ val.rust \in ExpectedHosts(ty)) =>
        (out.some /\ out.v = "NULL")

\* The escapes of the components of the value against the types of the fields.
FieldEscapes == [i \in 1..Len(ty.fields) |-> escape_val(ty.fields[i].type, val.items[i])]

\* C12: a value that decomposes into [v1..vn], escaped against a composite
\* type T of fields [t1..tn], gives ROW(e1, ..., en)::T, ei the escape of vi
\* against ti, in field order and joined by ", ".
C12_CompositeRow ==
    (/\ Escaped
     /\ ty.kind = "CustomStruct"
     /\ val.wrap = ""
     /\ val.rust = HostOf(ty)
     /\ Len(val.items) = Len(ty.fields)
     /\ \A i \in 1..Len(ty.fields) : FieldEscapes[i].some) =>
        /\ out.some
        /\ out.v = "ROW(" \o Join([i \in 1..Len(ty.fields) |-> FieldEscapes[i].v], ", ")
                       \o ")::" \o ty.name

\* (5, "a") has been escaped against with_label.
C12_Witness ==
    /\ out.op = "escape_val"
    /\ ty = IntWithLabel
    /\ val = HostTuple(<<HostInt("i16", 5), HostText("String", "a")>>)
    /\ out.v = "ROW(5, 'a')::with_label"

\* C13: escaping a composite value fails when the number of values it
\* decomposes into differs from the number of fields of the type: no surplus
\* value is dropped, no ROW of fewer fields is rendered.
C13_ArityMismatchFails ==
    (/\ Escaped
     /\ ty.kind = "CustomStruct"
     /\ val.present
     /\ val.rust = HostOf(ty)
     /\ Len(val.items) # Len(ty.fields)) =>
        ~out.some

\* The escapes of the elements of the value against the element type.
ElementEscapes == [i \in 1..Len(val.items) |-> escape_val(Inner(ty), val.items[i])]

C15_LengthBound ==
    (/\ Escaped
     /\ ty.kind \in {"Char", "VarChar"}
     /\ val.rust = "String"
     /\ \/ val.wrap = ""
        \/ val.wrap = "Nullable" /\ out.op = "escape_nullable_val") =>
        LET len == IF val.present THEN Len(val.s) ELSE 0
        IN  /\ ty.size # -1 => ((~out.some) <=> len > ty.size)
            /\ (ty.kind = "VarChar" /\ ty.size = -1) => out.some
            /\ ~out.some => out.v = ""

\* A string of exactly the declared length has been accepted.
C15_Witness ==
    /\ Escaped
    /\ ty.kind \in {"Char", "VarChar"}
    /\ ty.size = 3
    /\ val.rust = "String"
    /\ val.present
    /\ Len(val.s) = 3
    /\ out.some

C26_NonNullFirst ==
    (out.op = "escape_nullable_val" /\ (escape_val(ty, val).some \/ IsAbort(escape_val(ty, val)))) =>
        /\ out.some = escape_val(ty, val).some
        /\ out.v = escape_val(ty, val).v

\* A plain i16 has been escaped by escape_nullable_val.
C26_Witness ==
    /\ out.op = "escape_nullable_val"
    /\ ty = Int16
    /\ val = HostInt("i16", 5)
    /\ out.some
    /\ out.v = "5"

\* The escapes of the components, or elements, that the value brings.
NestedEscapes ==
    IF ty.kind = "CustomStruct"
    THEN [i \in 1..(IF Len(val.items) < Len(ty.fields) THEN Len(val.items) ELSE Len(ty.fields)) |->
             escape_val(ty.fields[i].type, val.items[i])]
    ELSE [i \in 1..Len(val.items) |-> escape_val(Inner(ty), val.items[i])]

\* C27: when a component of a composite value, or an element of an array
\* value, fails to escape against its field or element type, escaping the
\* whole value answers the failure None: it does not abort, and it answers
\* no partly written ROW(...) or {...}.
C27_NestedFailureIsNone ==
    (/\ Escaped
     /\ \/ ty.kind = "CustomStruct" /\ val.rust = HostOf(ty)
        \/ /\ ty.kind = "DbType::Array"
           /\ Inner(ty).kind \notin UnimplementedElementKinds
           /\ \E h \in ExpectedHosts(Inner(ty)) : val.rust = "Vec<" \o h \o ">"
     /\ val.wrap = ""
     /\ \E i \in 1..Len(NestedEscapes) : NestedEscapes[i] = None) =>
        /\ ~out.some
        /\ ~IsAbort(out)

(***************************************************************************)
(* table.rs: the literal insert statements.  A Result<String, Error> is    *)
(* the record of an Option<String>, an Err carrying its diagnostic in `v`. *)
(***************************************************************************)
Ok(v) == [some |-> TRUE, v |-> v]

\* column::Error, naming the column and its type
ColumnError(c) ==
    [some |-> FALSE,
     v |-> "error: column " \o c.name \o " of type " \o DbTypeDisplay(c.db_type)]

\* Option::ok_or
ok_or(escaped, err) ==
    IF escaped.some THEN Ok(escaped.v)
    ELSE IF IsAbort(escaped) THEN escaped
    ELSE err

\* Column::escape_val: the codec of the column's type, the nullable one for
\* a nullable column; None becomes the column's error.
column_escape_val(c, v) ==
    ok_or(IF c.nullable THEN escape_nullable_val(c.db_type, v) ELSE escape_val(c.db_type, v),
          ColumnError(c))

\* A collect that goes through every result and keeps the last failure.
CollectResults_last(results) ==
    IF \A i \in 1..Len(results) : results[i].some
    THEN [some |-> TRUE, v |-> "", items |-> [i \in 1..Len(results) |-> results[i].v]]
    ELSE LET last == CHOOSE i \in 1..Len(results) :
                         ~results[i].some /\ \A j \in (i + 1)..Len(results) : results[j].some
         IN  [some |-> FALSE, v |-> results[last].v, items |-> <<>>]

\* collect::<Result<Vec<_>, _>>() over results computed in order: the values
\* when all are Ok, else the first result that is not.
CollectResults(results) ==
    IF \A i \in 1..Len(results) : results[i].some
    THEN [some |-> TRUE, v |-> "", items |-> [i \in 1..Len(results) |-> results[i].v]]
    ELSE LET first == CHOOSE i \in 1..Len(results) :
                          ~results[i].some /\ \A j \in 1..(i - 1) : results[j].some
         IN  [some |-> FALSE, v |-> results[first].v, items |-> <<>>]

\* collected?.join(sep)
JoinOk(collected, sep) ==
    IF collected.some THEN Ok(Join(collected.items, sep))
    ELSE [some |-> FALSE, v |-> collected.v]

\* format!("{pre}{}{post}", r?), and Result::map with such a format!
FormatOk(r, pre, post) == IF r.some THEN Ok(pre \o r.v \o post) ELSE r

\* The names of the columns joined last column first.
columns_names_reversed(cols) ==
    Join([i \in 1..Len(cols) |-> cols[Len(cols) + 1 - i].name], ", ")

\* Self::columns().iter().map(|c| c.name()).join(", ")
columns_names(cols) == Join([i \in 1..Len(cols) |-> cols[i].name], ", ")

\* Table::insert_values_row
insert_values_row(cols, values) ==
    JoinOk(CollectResults([i \in 1..(IF Len(cols) < Len(values) THEN Len(cols) ELSE Len(values)) |->
                              column_escape_val(cols[i], values[i])]),
           ", ")

\* Table::insert_sql(&self)
insert_sql(name, cols, values) ==
    FormatOk(insert_values_row(cols, values),
             "INSERT INTO " \o name \o " (" \o columns_names(cols) \o ") VALUES (", ");")

\* Table::insert_many_sql(rows: &[Self])
insert_many_sql(name, cols, many) ==
    FormatOk(JoinOk(CollectResults([i \in 1..Len(many) |->
                                       FormatOk(insert_values_row(cols, many[i]), "(", ")")]),
                    ", "),
             "INSERT INTO " \o name \o " (" \o columns_names(cols) \o ") VALUES ", ";")

(***************************************************************************)
(* Rows collected for a table and rendered as literal inserts.             *)
(***************************************************************************)
MaxRows == 2   \* rows handed to one insert

\* A value of the host type of the column type.
SampleOf(t) ==
    CASE t.kind = "Int16" -> HostInt("i16", 5)
      [] t.kind = "Boolean" -> HostBool(TRUE)
      [] t.kind = "CustomStruct" -> HostTuple(<<HostInt("i16", 5), HostInt("i16", -8)>>)
      [] t.kind = "DbType::Array" -> HostVec("i16", <<HostInt("i16", 5), HostInt("i16", -8)>>)
      [] OTHER -> HostText("String", "a")

\* What values() may hold for the column: the value, and for a nullable
\* column its Nullable and Option forms; for any other column a String too
\* long for every sized type.
ValueChoices(c) ==
    IF c.nullable
    THEN {SampleOf(c.db_type), Val(SampleOf(c.db_type)), Null(HostOf(c.db_type)),
          NoneOf(HostOf(c.db_type))}
    ELSE {SampleOf(c.db_type), HostText("String", "abcd")}

InsertTables ==
    {<<DeclareColumn("a", <<Int16, FALSE>>), DeclareColumn("b", <<Boolean, TRUE>>)>>,
     <<DeclareColumn("a", <<Point2d, FALSE>>), DeclareColumn("b", <<Point2d, TRUE>>)>>,
     <<DeclareColumn("a", <<Array(Int16), FALSE>>), DeclareColumn("b", <<VarChar(3), TRUE>>)>>}

RowChoices(cols) ==
    {r \in [1..Len(cols) -> UNION {ValueChoices(cols[i]) : i \in 1..Len(cols)}] :
        \A i \in 1..Len(cols) : r[i] \in ValueChoices(cols[i])}

InsertInit ==
    /\ columns \in InsertTables
    /\ constraints = <<>>
    /\ out = NoOut
    /\ rows = <<>>
    /\ val = Unit
    /\ executed = <<>>
    /\ ty = INT2
    /\ fieldsAcc = <<>>
    /\ defs = NoDefs
    /\ builder = <<>>
    /\ pg_type = {}

AddRow ==
    /\ Len(rows) < MaxRows
    /\ \E r \in RowChoices(columns) : rows' = Append(rows, r)
    /\ out' = NoOut

InsertSql ==
    /\ \E i \in 1..Len(rows) :
          out' = [op |-> "insert_sql"] @@ insert_sql(TableName, columns, rows[i])
    /\ UNCHANGED rows

InsertManySql ==
    /\ out' = [op |-> "insert_many_sql"] @@ insert_many_sql(TableName, columns, rows)
    /\ UNCHANGED rows

InsertNext ==
    \/ AddRow /\ UNCHANGED <<emitVars, columns, constraints, val, executed, columnVars, serverVars>>
    \/ InsertSql /\ UNCHANGED <<emitVars, columns, constraints, val, executed, columnVars, serverVars>>
    \/ InsertManySql /\ UNCHANGED <<emitVars, columns, constraints, val, executed, columnVars, serverVars>>

SpecInsert == InsertInit /\ [][InsertNext]_vars

(***************************************************************************)
(* Properties of the literal inserts.                                      *)
(***************************************************************************)
\* C7: insert_many_sql called for zero rows returns the empty string: not an
\* error, and not an INSERT statement with an empty VALUES list.
C7_ZeroRowsIsEmptyString ==
    (out.op = "insert_many_sql" /\ rows = <<>>) => (out.some /\ out.v = "")

\* The result of escaping value i of the row for column i.
ColumnResult(row, i) == column_escape_val(columns[i], row[i])

\* The columns of the row whose value does not escape.
FailingColumns(row) == {i \in 1..Len(columns) : ~ColumnResult(row, i).some}

Least(S) == CHOOSE i \in S : \A j \in S : i <= j

\* What a row must give: a statement text when every column escapes, else
\* the error of the first failing column in column order.
RowOutcome(row, result) ==
    IF FailingColumns(row) = {}
    THEN result.some
    ELSE /\ ~result.some
         /\ result.v = ColumnResult(row, Least(FailingColumns(row))).v
         /\ ~StartsWith(result.v, "INSERT")

\* C17: the literal insert of a row is an error as soon as one column fails
\* to escape, the error being that of the first failing column in column
\* order, and never a statement for part of the columns; insert_many_sql is
\* the error of the first failing row in the same way.
C17_FirstFailingColumn ==
    /\ out.op = "insert_sql" => \E i \in 1..Len(rows) : RowOutcome(rows[i], out)
    /\ out.op = "insert_many_sql" =>
          LET failing == {i \in 1..Len(rows) : FailingColumns(rows[i]) # {}}
          IN  IF failing = {} THEN out.some /\ StartsWith(out.v, "INSERT")
              ELSE RowOutcome(rows[Least(failing)], out)

\* A row whose two columns both fail has given the error of the first.
C17_Witness ==
    /\ out.op = "insert_sql"
    /\ Len(rows) = 1
    /\ FailingColumns(rows[1]) = {1, 2}
    /\ out = [op |-> "insert_sql"] @@ ColumnError(columns[1])

(***************************************************************************)
(* The parameterized insert statements PgTableExtension asks a Table for:  *)
(* T::insert_sql() and T::insert_many_sql(rows.len()).                     *)
(***************************************************************************)
\* The placeholder of the parameter number p.
Placeholder(p) == "$" \o ToString(p)

\* T::insert_sql(): one group of placeholders $1 .. $N
insert_sql_placeholders(name, cols) ==
    "INSERT INTO " \o name \o " (" \o columns_names(cols) \o ") VALUES ("
        \o Join([j \in 1..Len(cols) |-> Placeholder(j)], ", ") \o ");"

\* T::insert_many_sql(rows): a group of N placeholders for every row, the
\* indices of a group offset by row_index * N; "" for no row.
insert_many_sql_placeholders(name, cols, k) ==
    IF k = 0 THEN ""
    ELSE "INSERT INTO " \o name \o " (" \o columns_names(cols) \o ") VALUES "
            \o Join([i \in 1..k |->
                        "(" \o Join([j \in 1..Len(cols) |->
                                        Placeholder((i - 1) * Len(cols) + j)], ", ") \o ")"],
                    ", ")
            \o ";"

(***************************************************************************)
(* ext.rs: impl PgTableExtension for Client.  `executed` is the log of the *)
(* calls and of the statement and parameters each handed to the server.    *)
(***************************************************************************)
MaxExecuted == 2   \* calls kept in the log of the client

\* A row whose values differ by column: base + 1 .. base + N.
ClientRow(n, base) == [j \in 1..n |-> HostInt("i16", base + j)]

\* rows.iter().flat_map(|row| row.values()).collect(), last row first
flat_map_values_reversed(many) ==
    Flatten([i \in 1..Len(many) |-> many[Len(many) + 1 - i]])

\* rows.iter().flat_map(|row| row.values()).collect()
flat_map_values(many) == Flatten(many)

\* Client::execute(&query, &params): the statement goes to the server.
Executed(op, args, query, params) ==
    [op |-> op, args |-> args, query |-> query, params |-> params]

ClientInit ==
    /\ columns \in {[i \in 1..n |-> ColumnNew(ColumnNames[i], INT2)] : n \in 1..MaxColumns}
    /\ constraints = <<>>
    /\ out = NoOut
    /\ rows = <<>>
    /\ val = Unit
    /\ executed = <<>>
    /\ ty = INT2
    /\ fieldsAcc = <<>>
    /\ defs = NoDefs
    /\ builder = <<>>
    /\ pg_type = {}

NewRow ==
    /\ Len(rows) < MaxRows
    /\ \E base \in {0, 10} : rows' = Append(rows, ClientRow(Len(columns), base))
    /\ UNCHANGED executed

\* PgTableExtension::insert_row
InsertRow ==
    /\ Len(executed) < MaxExecuted
    /\ \E i \in 1..Len(rows) :
          executed' = Append(executed,
              Executed("insert_row", <<rows[i]>>,
                       insert_sql_placeholders(TableName, columns), rows[i]))
    /\ UNCHANGED rows

\* PgTableExtension::insert_rows
InsertRows ==
    /\ Len(executed) < MaxExecuted
    /\ executed' = Append(executed,
           Executed("insert_rows", rows,
                    insert_many_sql_placeholders(TableName, columns, Len(rows)),
                    flat_map_values(rows)))
    /\ UNCHANGED rows

ClientNext ==
    \/ NewRow /\ UNCHANGED <<emitVars, tableVars, val, columnVars, serverVars>>
    \/ InsertRow /\ UNCHANGED <<emitVars, tableVars, val, columnVars, serverVars>>
    \/ InsertRows /\ UNCHANGED <<emitVars, tableVars, val, columnVars, serverVars>>

SpecClient == ClientInit /\ [][ClientNext]_vars

(***************************************************************************)
(* Properties of the parameterized inserts.                                *)
(***************************************************************************)
\* What follows VALUES in an INSERT of the table, without the closing ";".
ValuesPart(sql) ==
    LET head == "INSERT INTO " \o TableName \o " ("
                    \o Join([i \in 1..Len(columns) |-> columns[i].name], ", ") \o ") VALUES "
    IN  IF StartsWith(sql, head) /\ EndsWith(sql, ";")
        THEN SubSeq(sql, Len(head) + 1, Len(sql) - 1)
        ELSE "?"

\* The parenthesised groups of a VALUES list, each as its items.
Groups(part) ==
    LET gs == SplitTop(part)
    IN  [i \in 1..Len(gs) |->
            LET g == TrimStart(gs[i])
            IN  IF StartsWith(g, "(") /\ EndsWith(g, ")")
                THEN Split(SubSeq(g, 2, Len(g) - 1), ", ")
                ELSE <<"?">>]

ColumnTypes == {INT2, MOOD, array_type(INT2)}

ColumnInit ==
    /\ builder = <<>>
    /\ pg_type = {}
    /\ TableIdle
    /\ HostIdle
    /\ ty = INT2
    /\ fieldsAcc = <<>>
    /\ defs = NoDefs

\* ColumnBuilder::new(name, db_type)
BuilderNew ==
    /\ \E name \in {"a", "b"}, t \in ColumnTypes : builder' = <<ColumnBuilderNew(name, t)>>
    /\ columns' = <<>>
    /\ out' = NoOut

\* .nullable()
Nullable ==
    /\ builder # <<>>
    /\ builder' = <<nullable(builder[1])>>
    /\ UNCHANGED <<columns, out>>

\* .unique()
UniqueColumn ==
    /\ builder # <<>>
    /\ builder' = <<unique(builder[1])>>
    /\ UNCHANGED <<columns, out>>

\* .primary_key()
PrimaryKey ==
    /\ builder # <<>>
    /\ builder' = <<primary_key(builder[1])>>
    /\ UNCHANGED <<columns, out>>

\* .foreign_key(table_name, column)
ForeignKey ==
    /\ builder # <<>>
    /\ \E target \in {<<"users", "user_id">>, <<"t", "a">>} :
          builder' = <<foreign_key(builder[1], target[1], target[2])>>
    /\ UNCHANGED <<columns, out>>

\* .index()
IndexColumn ==
    /\ builder # <<>>
    /\ builder' = <<index(builder[1])>>
    /\ UNCHANGED <<columns, out>>

\* .index_with(method)
IndexWith ==
    /\ builder # <<>>
    /\ \E method \in {"BTree", "Hash"} : builder' = <<index_with(builder[1], method)>>
    /\ UNCHANGED <<columns, out>>

\* .finish() consumes the builder.
Finish ==
    /\ builder # <<>>
    /\ columns' = <<finish(builder[1])>>
    /\ builder' = <<>>
    /\ out' = NoOut

\* Column::new(name, db_type)
NewColumn ==
    /\ \E name \in {"a", "b"}, t \in ColumnTypes : columns' = <<ColumnNew(name, t)>>
    /\ builder' = <<>>
    /\ out' = NoOut

\* column.to_string()
ColumnToString ==
    /\ columns # <<>>
    /\ out' = [op |-> "to_string", some |-> TRUE, v |-> ColumnDisplay(columns[1])]
    /\ UNCHANGED <<columns, builder>>

\* column.is_unique()
IsUnique ==
    /\ columns # <<>>
    /\ out' = [op |-> "is_unique", some |-> is_unique(columns[1]), v |-> ""]
    /\ UNCHANGED <<columns, builder>>

\* column.create_index_sql(table_name)
CreateIndexSql ==
    /\ columns # <<>>
    /\ \E table_name \in {"t", "users"} :
          out' = [op |-> "create_index_sql",
                  some |-> create_index_sql(columns[1], table_name) # <<>>,
                  v |-> Join([i \in 1..Len(create_index_sql(columns[1], table_name)) |->
                                 create_index_sql(columns[1], table_name)[i].create_sql], ""),
                  table_name |-> table_name]
    /\ UNCHANGED <<columns, builder>>

ColumnNext ==
    \/ BuilderNew /\ UNCHANGED <<emitVars, constraints, hostVars, serverVars>>
    \/ Nullable /\ UNCHANGED <<emitVars, constraints, hostVars, serverVars>>
    \/ UniqueColumn /\ UNCHANGED <<emitVars, constraints, hostVars, serverVars>>
    \/ PrimaryKey /\ UNCHANGED <<emitVars, constraints, hostVars, serverVars>>
    \/ ForeignKey /\ UNCHANGED <<emitVars, constraints, hostVars, serverVars>>
    \/ IndexColumn /\ UNCHANGED <<emitVars, constraints, hostVars, serverVars>>
    \/ IndexWith /\ UNCHANGED <<emitVars, constraints, hostVars, serverVars>>
    \/ Finish /\ UNCHANGED <<emitVars, constraints, hostVars, serverVars>>
    \/ NewColumn /\ UNCHANGED <<emitVars, constraints, hostVars, serverVars>>
    \/ ColumnToString /\ UNCHANGED <<emitVars, constraints, hostVars, serverVars>>
    \/ IsUnique /\ UNCHANGED <<emitVars, constraints, hostVars, serverVars>>
    \/ CreateIndexSql /\ UNCHANGED <<emitVars, constraints, hostVars, serverVars>>

SpecColumn == ColumnInit /\ [][ColumnNext]_vars

(***************************************************************************)
(* Properties of a column.                                                 *)
(***************************************************************************)
\* The text of the type of a column: the element type and [] for an array.
TypeText(t) == IF t.kind = "Array" THEN Inner(t).name \o "[]" ELSE t.name

\* The clauses after the type, each empty when its flag is off.
Clauses(c) ==
    <<IF c.nullable THEN " NULL" ELSE " NOT NULL",
      IF c.unique THEN " UNIQUE" ELSE "",
      IF c.primary_key THEN " PRIMARY KEY" ELSE "",
      IF c.foreign_key # <<>>
      THEN " REFERENCES " \o c.foreign_key[1][1] \o "(" \o c.foreign_key[1][2] \o ")"
      ELSE "">>

\* C18: the text of a column is its name, a space and its type, then
\* exactly one of NULL and NOT NULL, then UNIQUE iff the column is unique,
\* PRIMARY KEY iff it is a primary key and REFERENCES <table>(<column>) iff
\* it has a foreign key, in this order and each led by one space.
C18_ColumnFragment ==
    out.op = "to_string" =>
        /\ out.v = columns[1].name \o " " \o TypeText(columns[1].db_type)
                       \o Join(Clauses(columns[1]), "")
        /\ columns[1].unique <=> Find(out.v, " UNIQUE", 1) # 0
        /\ columns[1].primary_key <=> Find(out.v, " PRIMARY KEY", 1) # 0
        /\ columns[1].foreign_key # <<>> <=> Find(out.v, " REFERENCES ", 1) # 0
        /\ columns[1].nullable <=> Find(out.v, " NOT NULL", 1) = 0

\* The text of a nullable primary key with a foreign key has been written.
C18_Witness ==
    /\ out.op = "to_string"
    /\ out.v = "a int2 NULL UNIQUE PRIMARY KEY REFERENCES users(user_id)"

\* C19: a builder on which primary_key() was called, every column finished
\* from it and every column of Column::new is unique when it is a primary
\* key.
C19_PrimaryKeyIsUnique ==
    /\ \A i \in 1..Len(builder) : builder[i].primary_key => builder[i].unique
    /\ \A i \in 1..Len(columns) : columns[i].primary_key => columns[i].unique

\* A primary key column has been finished.
C19_Witness ==
    /\ builder = <<>>
    /\ columns # <<>>
    /\ columns[1].primary_key
    /\ columns[1].unique

\* C20: is_unique() answers the uniqueness flag of the column, whatever its
\* nullability.
C20_IsUniqueIsTheFlag ==
    out.op = "is_unique" => (out.some <=> columns[1].unique)

\* The statement of the index of the column in the table by the method text.
IndexStatement(column, table, method) ==
    "CREATE INDEX IF NOT EXISTS " \o column \o "_idx_" \o table \o " ON " \o table
        \o " USING " \o method \o " (" \o column \o ")"

\* C21: the index statement of a column c with method m in table t is
\* CREATE INDEX IF NOT EXISTS <c>_idx_<t> ON <t> USING <m> (<c>), m written
\* btree or hash; a column without an index has none; and index() without a
\* method declares btree.
C21_IndexStatement ==
    /\ [](out.op = "create_index_sql" =>
            /\ out.some <=> columns[1].index # <<>>
            /\ out.some =>
                  \E m \in {<<"BTree", "btree">>, <<"Hash", "hash">>} :
                      /\ columns[1].index = <<m[1]>>
                      /\ out.v = IndexStatement(columns[1].name, out.table_name, m[2]))
    /\ [][IndexColumn => builder'[1].index = <<"BTree">>]_vars

\* A hash index of column b in table users has been stated.
C21_Witness ==
    /\ out.op = "create_index_sql"
    /\ out.v = "CREATE INDEX IF NOT EXISTS b_idx_users ON users USING hash (b)"

(***************************************************************************)
(* ext.rs: the DDL handlers of PgTableExtension for Client.  The client is *)
(* the record of the calls it has made, the types the server holds and the *)
(* Ok or Err of the last call; the call number fail_at (0 for none) is the *)
(* one the server answers with an error.                                   *)
(***************************************************************************)
MaxIndexed == 2   \* columns of a table handed to the DDL handlers

\* query_type_existence
query_type_existence(type_name) ==
    "SELECT oid FROM pg_catalog.pg_type where typname = '" \o type_name \o "'"

\* A call of Client::query, execute or batch_execute and what came back:
\* Ok or Err, and the number of rows of a query.
Call(op, query, ok, found) == [op |-> op, query |-> query, ok |-> ok, found |-> found]

ClientNew(types) == [ok |-> TRUE, types |-> types, log |-> <<>>]

\* The client after a call that reads the server: `?` leaves with the Err.
Asked(r, op, query, fail_at, found) ==
    [r EXCEPT !.ok = Len(r.log) + 1 # fail_at,
              !.log = Append(@, Call(op, query, Len(r.log) + 1 # fail_at,
                                     IF Len(r.log) + 1 # fail_at THEN found ELSE 0))]

\* The client after a CREATE of the named object, which the server holds
\* from then on unless it answered with an error.
Created(r, op, name, sql, fail_at) ==
    [r EXCEPT !.ok = Len(r.log) + 1 # fail_at,
              !.types = IF Len(r.log) + 1 # fail_at THEN @ \cup name ELSE @,
              !.log = Append(@, Call(op, sql, Len(r.log) + 1 # fail_at, 0))]

RECURSIVE UniqueByName(_, _)
\* The entries whose name is not among `seen`, the first of every name.
UniqueByName(entries, seen) ==
    IF entries = <<>> THEN <<>>
    ELSE IF Head(entries).name \in seen THEN UniqueByName(Tail(entries), seen)
    ELSE <<Head(entries)>> \o UniqueByName(Tail(entries), seen \cup {Head(entries).name})

\* Table::create_types_sql: the entries of Column::create_types_sql of every
\* column, in column order, the first of every type name.
create_types_defs(cols) ==
    UniqueByName(Flatten([i \in 1..Len(cols) |-> from_type(cols[i].db_type)]), {})

\* Table::create_indices_sql: the entry of Column::create_index_sql of every
\* column that has one, in column order.
create_indices_sql(name, cols) ==
    Flatten([i \in 1..Len(cols) |-> create_index_sql(cols[i], name)])

\* A probe that never finds the type.
is_empty_always(res) == TRUE

\* res.is_empty()
is_empty(res) == res = 0

\* The rows of the probe that the client has just made.
LastFound(r) == r.log[Len(r.log)].found

\* if res.is_empty() { self.execute(sql, &[])?; }
CreateIfMissing(r, def, fail_at) ==
    IF ~r.ok THEN r
    ELSE IF is_empty(LastFound(r))
    THEN Created(r, "execute", {def.name}, def.create_sql, fail_at)
    ELSE r

RECURSIVE TypesLoop(_, _, _)
\* for ty_query in create_types { .. }
TypesLoop(create_types, r, fail_at) ==
    IF ~r.ok \/ create_types = <<>> THEN r
    ELSE TypesLoop(Tail(create_types),
                   CreateIfMissing(
                       Asked(r, "query", query_type_existence(Head(create_types).name), fail_at,
                             IF Head(create_types).name \in r.types THEN 1 ELSE 0),
                       Head(create_types), fail_at),
                   fail_at)

\* PgTableExtension::create_types
create_types(cols, r, fail_at) == TypesLoop(create_types_defs(cols), r, fail_at)

RECURSIVE IndicesLoop(_, _, _)
\* for idx_query in create_indices { .. }
IndicesLoop(create_indices, r, fail_at) ==
    IF ~r.ok \/ create_indices = <<>> THEN r
    ELSE IndicesLoop(Tail(create_indices),
                     Created(r, "execute", {}, Head(create_indices).create_sql, fail_at),
                     fail_at)

\* PgTableExtension::create_indices
create_indices(name, cols, r, fail_at) ==
    IF ~r.ok THEN r ELSE IndicesLoop(create_indices_sql(name, cols), r, fail_at)

\* self.batch_execute(&query)?
batch_execute(r, query, fail_at) ==
    IF ~r.ok THEN r ELSE Created(r, "batch_execute", {}, query, fail_at)

\* A create_table that creates the indices ahead of the table.
create_table_indices_first(name, cols, r, fail_at) ==
    batch_execute(create_indices(name, cols, create_types(cols, r, fail_at), fail_at),
                  create_table_sql(name, cols, <<>>), fail_at)

\* PgTableExtension::create_table
create_table(name, cols, r, fail_at) ==
    create_indices(name, cols,
                   batch_execute(create_types(cols, r, fail_at),
                                 create_table_sql(name, cols, <<>>), fail_at),
                   fail_at)

(***************************************************************************)
(* A client creating the types, the table and the indices of a table.      *)
(***************************************************************************)
Pair == struct_type("pair", <<Field("x", INT2), Field("m", MOOD)>>)

\* A column of the type, with the index declared if any.
DdlColumn(name, t, method) ==
    finish(IF method = "" THEN ColumnBuilderNew(name, t)
           ELSE index_with(ColumnBuilderNew(name, t), method))

DdlTables ==
    UNION {{[i \in 1..n |-> DdlColumn(ColumnNames[i], ch[i][1], ch[i][2])] :
               ch \in [1..n -> {INT2, MOOD, Pair} \X {"", "BTree", "Hash"}]} :
           n \in 0..MaxIndexed}

DdlInit ==
    /\ columns \in DdlTables
    /\ pg_type \in SUBSET {"mood", "pair"}
    /\ constraints = <<>>
    /\ out = NoOut
    /\ HostIdle
    /\ builder = <<>>
    /\ ty = INT2
    /\ fieldsAcc = <<>>
    /\ defs = NoDefs

\* The call numbers at which a handler of the table may meet an error.
FailChoices == 0..Len(create_table(TableName, columns, ClientNew(pg_type), 0).log)

\* The handler has returned: its Result, its calls, the server after them.
Returned(op, r) ==
    /\ out' = [op |-> op, some |-> r.ok, v |-> IF r.ok THEN "" ELSE "error"]
    /\ executed' = r.log
    /\ pg_type' = r.types

\* client.create_types::<T, N>()
CreateTypes ==
    \E fail_at \in FailChoices :
        Returned("create_types", create_types(columns, ClientNew(pg_type), fail_at))

\* client.create_indices::<T, N>()
CreateIndices ==
    \E fail_at \in FailChoices :
        Returned("create_indices",
                 create_indices(TableName, columns, ClientNew(pg_type), fail_at))

\* client.create_table::<T, N>()
CreateTable ==
    \E fail_at \in FailChoices :
        Returned("create_table",
                 create_table(TableName, columns, ClientNew(pg_type), fail_at))

DdlNext ==
    \/ CreateTypes /\ UNCHANGED <<emitVars, columns, constraints, val, rows, columnVars>>
    \/ CreateIndices /\ UNCHANGED <<emitVars, columns, constraints, val, rows, columnVars>>
    \/ CreateTable /\ UNCHANGED <<emitVars, columns, constraints, val, rows, columnVars>>

SpecDdl == DdlInit /\ [][DdlNext]_vars

(***************************************************************************)
(* Properties of the DDL handlers.                                         *)
(***************************************************************************)
\* The columns that declared an index, in column order.
IndexedColumns == SelectSeq(columns, LAMBDA c : c.index # <<>>)

\* The index statement expected of a column of the table.
ColumnIndexStatement(c) ==
    IndexStatement(c.name, TableName, IF c.index[1] = "BTree" THEN "btree" ELSE "hash")

\* C22: the index statements of a table, as create_indices executes them,
\* are one statement for every column that declared an index and none for
\* any other column, in column order; none at all for a table without an
\* indexed column.
C22_OneStatementPerIndexedColumn ==
    (out.op = "create_indices" /\ out.some) =>
        /\ Len(executed) = Len(IndexedColumns)
        /\ \A i \in 1..Len(executed) :
              /\ executed[i].op = "execute"
              /\ executed[i].query = ColumnIndexStatement(IndexedColumns[i])
        /\ (\A i \in 1..Len(columns) : columns[i].index = <<>>) => executed = <<>>

\* The indices of a table of two columns indexed by different methods have
\* been created.
C22_Witness ==
    /\ out.op = "create_indices"
    /\ out.some
    /\ Len(columns) = 2
    /\ columns[1].index # <<>>
    /\ columns[2].index # <<>>
    /\ columns[1].index # columns[2].index
    /\ Len(executed) = 2

\* The place of a call among the steps of create_table: the types (a probe
\* or the CREATE of a type), the table, the indices.
Phase(call) ==
    CASE call.op = "query" -> 1
      [] call.op = "batch_execute" -> 2
      [] StartsWith(call.query, "CREATE INDEX") -> 3
      [] OTHER -> 1

\* Every call but the last was answered without an error.
ErrorIsLast(log) == \A i \in 1..Len(log) : ~log[i].ok => i = Len(log)

AllOk(log) == \A i \in 1..Len(log) : log[i].ok

\* C29: the calls of create_table come in the order types, CREATE TABLE,
\* indices: no probe or CREATE of a type after the CREATE TABLE, no CREATE
\* INDEX before it, and the CREATE TABLE, the table's create_table_sql, at
\* most once.  A call answered with an error is the last call made, and
\* create_table returns Err exactly then; on Ok the three steps were all
\* made in full.
C29_TypesTableIndices ==
    out.op = "create_table" =>
        /\ \A i, j \in 1..Len(executed) : i < j => Phase(executed[i]) <= Phase(executed[j])
        /\ \A i, j \in 1..Len(executed) :
              (Phase(executed[i]) = 2 /\ Phase(executed[j]) = 2) => i = j
        /\ \A i \in 1..Len(executed) :
              Phase(executed[i]) = 2 => executed[i].query = create_table_sql(TableName, columns, <<>>)
        /\ ErrorIsLast(executed)
        /\ out.some <=> AllOk(executed)
        /\ ~out.some => out.v = "error"
        /\ out.some =>
              /\ \E i \in 1..Len(executed) : Phase(executed[i]) = 2
              /\ Len(SelectSeq(executed, LAMBDA c : c.op = "query")) = Len(create_types_defs(columns))
              /\ Len(SelectSeq(executed, LAMBDA c : Phase(c) = 3)) = Len(IndexedColumns)

\* The CREATE TABLE of a table with an indexed column failed after a type
\* had been created: it is the last call, and create_table returned Err.
C29_Witness ==
    /\ out.op = "create_table"
    /\ ~out.some
    /\ IndexedColumns # <<>>
    /\ Len(executed) >= 3
    /\ executed[Len(executed)].op = "batch_execute"
    /\ \E i \in 1..Len(executed) : executed[i].op = "execute" /\ executed[i].ok

\* The probes of a log, in the order they were made.
Probes(log) == SelectSeq(log, LAMBDA c : c.op = "query")

\* The CREATE statements of a log of create_types.
Creates(log) == {i \in 1..Len(log) : log[i].op = "execute"}

\* The emitted entry that the i-th call of a log of create_types is about.
EntryAt(log, i) == create_types_defs(columns)[Len(Probes(SubSeq(log, 1, i)))]

\* C30: create_types probes the emitted types in emission order, every one
\* of them unless an error stopped the loop; a CREATE is executed only right
\* after the probe of its own type came back without an error and without a
\* row; no type name is created twice, a type the server held before the
\* call is not created, and a probe or a CREATE answered with an error is
\* the last call, create_types returning Err.
C30_ProbeThenCreate ==
    /\ [](out.op = "create_types" =>
            /\ Len(Probes(executed)) <= Len(create_types_defs(columns))
            /\ \A i \in 1..Len(Probes(executed)) :
                  Probes(executed)[i].query
                      = query_type_existence(create_types_defs(columns)[i].name)
            /\ out.some => Len(Probes(executed)) = Len(create_types_defs(columns))
            /\ \A i \in Creates(executed) :
                  /\ i > 1
                  /\ executed[i - 1].op = "query"
                  /\ executed[i - 1].ok
                  /\ executed[i - 1].found = 0
                  /\ executed[i].query = EntryAt(executed, i).create_sql
            /\ \A i, j \in Creates(executed) :
                  EntryAt(executed, i).name = EntryAt(executed, j).name => i = j
            /\ ErrorIsLast(executed)
            /\ out.some <=> AllOk(executed))
    /\ [][out'.op = "create_types" =>
            /\ \A i \in Creates(executed') : EntryAt(executed', i).name \notin pg_type
            /\ pg_type \subseteq pg_type']_vars

\* create_types went through a table of a composite whose enum the server
\* held already: the enum was probed and left alone, the composite probed
\* and created.
C30_Witness ==
    /\ out.op = "create_types"
    /\ out.some
    /\ Len(executed) = 3
    /\ executed[1].op = "query" /\ executed[1].found = 1
    /\ executed[2].op = "query" /\ executed[2].found = 0
    /\ executed[3].op = "execute"
    /\ {"mood", "pair"} \subseteq pg_type

(***************************************************************************)
(* The emitter and the codec side by side: a postgres Type is built and    *)
(* emitted, or a value is escaped against a DbType.                        *)
(***************************************************************************)
UnsupportedInit == EmitInit \/ EscapeInit

\* The steps of the emitter on a postgres Type, of the codec on a DbType.
UnsupportedNext ==
    \/ ty.kind \notin DbKinds /\ UseLeaf /\ UNCHANGED <<tableVars, hostVars, columnVars, serverVars>>
    \/ ty.kind \notin DbKinds /\ PushField /\ UNCHANGED <<tableVars, hostVars, columnVars, serverVars>>
    \/ ty.kind \notin DbKinds /\ StructType /\ UNCHANGED <<tableVars, hostVars, columnVars, serverVars>>
    \/ ty.kind \notin DbKinds /\ ArrayType /\ UNCHANGED <<tableVars, hostVars, columnVars, serverVars>>
    \/ ty.kind \notin DbKinds /\ DomainType /\ UNCHANGED <<tableVars, hostVars, columnVars, serverVars>>
    \/ ty.kind \notin DbKinds /\ FromType /\ UNCHANGED <<tableVars, hostVars, columnVars, serverVars>>
    \/ ty.kind \in DbKinds /\ EscapeVal
          /\ UNCHANGED <<fieldsAcc, defs, columns, constraints, rows, executed, columnVars, serverVars>>
    \/ ty.kind \in DbKinds /\ EscapeNullableVal
          /\ UNCHANGED <<fieldsAcc, defs, columns, constraints, rows, executed, columnVars, serverVars>>

SpecUnsupported == UnsupportedInit /\ [][UnsupportedNext]_vars

\* C25: an unsupported kind is fatal and gives no SQL text: escaping any
\* value against an array of arrays, or of another element kind as_vec does
\* not implement, aborts; and from_type aborts for a type that holds a kind
\* it does not handle, instead of answering a list, empty or not.
C25_UnsupportedIsFatal ==
    /\ (Escaped /\ ty.kind = "DbType::Array" /\ Inner(ty).kind \in UnimplementedElementKinds) =>
          /\ ~out.some
          /\ IsAbort(out)
    /\ (defs.called /\ ty.kind \notin DbKinds /\ ~Supported(ty)) =>
          /\ IsPanic(defs.list)
          /\ \A i \in 1..Len(defs.list) : ~StartsWith(defs.list[i].create_sql, "CREATE")

\* A Vec has been escaped against an array of arrays.
C25_Witness ==
    /\ out.op = "escape_val"
    /\ ty = Array(Array(Int16))
    /\ val = HostVec("i16", <<HostInt("i16", 5)>>)
    /\ IsAbort(out)

(***************************************************************************)
(* The emitter on standard, array, domain and enum types.                  *)
(***************************************************************************)
\* The entries of `list` whose statement starts with `prefix`.
EntriesWith(list, prefix) == {i \in 1..Len(list) : StartsWith(list[i].create_sql, prefix)}

\* The types the earlier DbType::create_sql is asked about.
OldWorldTypes == {Boolean, Int16, String, VarChar(3), Point2d, Array(Int16), Array(Point2d)}

\* C28: a standard type yields the empty list and an array yields exactly the
\* list of its element type, no entry of its own; a domain yields its inner
\* type's entries followed by one entry, its CREATE DOMAIN, and no other
\* CREATE DOMAIN of that name; an enum yields the single entry
\* CREATE TYPE "<name>" AS ENUM (...).  The earlier DbType::create_sql
\* likewise has nothing for a scalar and hands an array to its element type.
C28_NoEntryForStandardOrArray ==
    /\ defs.called =>
          /\ ty.kind = "Simple" => defs.list = <<>>
          /\ ty.kind = "Array" =>
                /\ defs.list = from_type(Inner(ty))
                /\ Supported(ty) => \A i \in 1..Len(defs.list) : defs.list[i].name # ty.name
          /\ (ty.kind = "Domain" /\ Supported(ty)) =>
                /\ Len(defs.list) = Len(from_type(Inner(ty))) + 1
                /\ SubSeq(defs.list, 1, Len(defs.list) - 1) = from_type(Inner(ty))
                /\ defs.list[Len(defs.list)].name = ty.name
                /\ EntriesWith(defs.list, "CREATE DOMAIN \"" \o ty.name \o "\" AS ")
                      = {Len(defs.list)}
          /\ ty.kind = "Enum" =>
                /\ Len(defs.list) = 1
                /\ defs.list[1].name = ty.name
                /\ StartsWith(defs.list[1].create_sql, "CREATE TYPE \"" \o ty.name \o "\" AS ENUM (")
    /\ \A t \in OldWorldTypes :
          /\ t.kind \notin {"CustomStruct", "DbType::Array"} => create_sql(t) = None
          /\ create_sql(Array(t)) = create_sql(t)

\* An array of a domain over an enum has been emitted: the enum's entry, then
\* the domain's, and nothing for the array.
C28_Witness ==
    /\ defs.called
    /\ ty.kind = "Array"
    /\ Inner(ty).kind = "Domain"
    /\ Inner(Inner(ty)) = MOOD
    /\ Len(defs.list) = 2
    /\ defs.list[2] = domain_def(Inner(ty))

====
